---- MODULE Spec2Model ----
(***************************************************************************)
(* Model of get-rate.py: the HeartRateLoop connection lifecycle            *)
(* (get_device, connect_device, the ServicesResolved wait, the             *)
(* characteristic lookup, StartNotify, the GLib main loop and its          *)
(* KeyboardInterrupt teardown) and the HR_measurement frame decoder run by *)
(* notification_handler.                                                   *)
(*                                                                         *)
(* BlueZ (the D-Bus peer) is the environment: it owns the managed objects, *)
(* the Connected / ServicesResolved properties of the device and the       *)
(* outcome (return or raise) of every method call.                         *)
(***************************************************************************)
EXTENDS Integers, Sequences, FiniteSets, TLC

(***************************************************************************)
(* Bounds of the model.                                                    *)
(***************************************************************************)
\* largest retry argument get_device is called with on its own
MaxRetry == 2
\* largest retry argument connect_device is called with on its own
MaxConnRetry == 2
\* cap on the discovery scans one run performs
MaxScans == 3
\* cap on the Connect calls one run performs
MaxConnects == 3
\* cap on the sleeps of the ServicesResolved wait
MaxPolls == 2
\* cap on the PropertiesChanged signals delivered to one session
MaxNotif == 2
\* largest number of bytes after the flags byte in a frame given to the decoder
MaxData == 5

(***************************************************************************)
(* Values.  Python None is the empty path / the empty UUID list / the      *)
(* empty string, which are all falsy like None.                            *)
(***************************************************************************)
NoPath == <<>>
NoUUID == ""
NoEE == -1

\* the arguments start passes to get_device (line 151) and connect_device
\* (line 152)
StartRetry == 2
StartConnRetry == 2

\* line 14 and line 15
HRM_service_uuid == "180d"
HRM_characteristic_uuid == "2a37"

\* str.casefold on the UUID spellings of the model
casefold(s) ==
    CASE s = "180D" -> "180d"
      [] s = "2A37" -> "2a37"
      [] OTHER -> s

\* str.startswith on object paths, a path being its sequence of components
startswith(path, prefix) ==
    /\ Len(prefix) <= Len(path)
    /\ SubSeq(path, 1, Len(prefix)) = prefix

(***************************************************************************)
(* Managed objects of BlueZ: GetManagedObjects returns a dict, iterated in *)
(* its order.  An entry is [path, UUIDs, chr]: UUIDs is the UUIDs property *)
(* of its org.bluez.Device1 interface ({} when it has none), chr the UUID  *)
(* property of its org.bluez.GattCharacteristic1 interface (NoUUID when it *)
(* has none).                                                              *)
(***************************************************************************)
Obj(p, u, c) == [path |-> p, UUIDs |-> u, chr |-> c]

Adapter == Obj(<<"hci0">>, {}, NoUUID)
DevA == Obj(<<"hci0", "dev_A">>, {"1800", "180d"}, NoUUID)
DevB == Obj(<<"hci0", "dev_B">>, {"180d"}, NoUUID)
DevC == Obj(<<"hci0", "dev_C">>, {"180f"}, NoUUID)
DevU == Obj(<<"hci0", "dev_U">>, {"180D"}, NoUUID)
ChrA_hrm == Obj(<<"hci0", "dev_A", "service000c", "char000d">>, {}, "2a37")
ChrA_bat == Obj(<<"hci0", "dev_A", "service0010", "char0011">>, {}, "2a19")
ChrB_hrm == Obj(<<"hci0", "dev_B", "service000c", "char000d">>, {}, "2a37")

\* the object lists BlueZ may hold when the program starts
InitObjs ==
    { <<Adapter>>,
      <<Adapter, DevA>>,
      <<Adapter, DevC, DevB, DevA>>,
      <<Adapter, DevU>>,
      <<Adapter, ChrB_hrm, DevA>> }

\* the devices a discovery scan may add
Discoverable == {DevA, DevC}

\* the characteristics service resolution may add for a device
GattTables(dev) ==
    IF dev = DevA.path THEN { <<>>, <<ChrA_bat>>, <<ChrA_bat, ChrA_hrm>> }
    ELSE IF dev = DevB.path THEN { <<>>, <<ChrB_hrm>> }
    ELSE { <<>> }

InObjs(objs, o) == \E i \in 1..Len(objs) : objs[i] = o

(***************************************************************************)
(* get_device_path (lines 121-127): the path of the first object whose     *)
(* Device1 UUIDs are non-empty and contain uuid.casefold(); None when the  *)
(* loop ends without a return.                                             *)
(***************************************************************************)
DeviceMatches(o, uuid) == o.UUIDs # {} /\ casefold(uuid) \in o.UUIDs

\* a lookup that keeps the last match instead of returning at the first
get_device_path_last(objs, uuid) ==
    LET hits == { i \in 1..Len(objs) : DeviceMatches(objs[i], uuid) }
    IN  IF hits = {} THEN NoPath
        ELSE objs[CHOOSE i \in hits : \A j \in hits : i >= j].path

get_device_path(objs, uuid) ==
    LET hits == { i \in 1..Len(objs) : DeviceMatches(objs[i], uuid) }
    IN  IF hits = {} THEN NoPath
        ELSE objs[CHOOSE i \in hits : \A j \in hits : i <= j].path

(***************************************************************************)
(* get_characteristic_path (lines 130-136).                                *)
(***************************************************************************)
CharMatches(o, device_path, uuid) ==
    startswith(o.path, device_path) /\ o.chr = casefold(uuid)

get_characteristic_path(objs, device_path, uuid) ==
    LET hits == { i \in 1..Len(objs) : CharMatches(objs[i], device_path, uuid) }
    IN  IF hits = {} THEN NoPath
        ELSE objs[CHOOSE i \in hits : \A j \in hits : i <= j].path

(***************************************************************************)
(* Python slices data[a:b] and data[n:] on a 1-based TLA+ sequence.        *)
(***************************************************************************)
Min(a, b) == IF a < b THEN a ELSE b
Max(a, b) == IF a > b THEN a ELSE b

Slice(data, a, b) == SubSeq(data, a + 1, Min(b, Len(data)))
Drop(data, n) == SubSeq(data, n + 1, Len(data))

RECURSIVE pow(_, _)
pow(b, e) == IF e = 0 THEN 1 ELSE b * pow(b, e - 1)

\* as_uint (lines 22-26): little-endian value of a byte list, 0 for []
RECURSIVE as_uint_from(_, _)
as_uint_from(bytelist, i) ==
    IF i >= Len(bytelist) THEN 0
    ELSE bytelist[i + 1] * pow(256, i) + as_uint_from(bytelist, i + 1)

as_uint(bytelist) == as_uint_from(bytelist, 0)

\* a format test that also reacts to bit 1
HRFormatBit_low2(flags) == flags % 4 # 0

\* flags & 0x01 (line 44) and flags & 0x08 (line 52)
HRFormatBit(flags) == flags % 2 = 1

EnergyBit(flags) == (flags \div 8) % 2 = 1

\* the quotient scaled to milliseconds
RRValue_ms(v) == [num |-> 60000 * 1024, den |-> v]

\* 60 * 1024 / v (line 61): the true quotient, kept as numerator and denominator
RRValue(v) == [num |-> 60 * 1024, den |-> v]

\* the while loop of lines 60-63; raised is "" or the exception that ends it
RECURSIVE DecodeRR(_)
DecodeRR(data) ==
    IF Len(data) = 0 THEN [raised |-> "", RR |-> <<>>]
    ELSE LET v == as_uint(Slice(data, 0, 2))
         IN  IF v = 0 THEN [raised |-> "ZeroDivisionError", RR |-> <<>>]
             ELSE LET rest == DecodeRR(Drop(data, 2))
                  IN  [raised |-> rest.raised,
                       RR |-> IF rest.raised = "" THEN <<RRValue(v)>> \o rest.RR
                              ELSE <<>>]

(***************************************************************************)
(* HR_measurement.__init__ (lines 38-63).  The result is the object's      *)
(* fields and the exception that left the constructor ("" for none).       *)
(***************************************************************************)
HR_measurement(data) ==
    IF Len(data) = 0
    THEN [raised |-> "IndexError", HR |-> 0, EE |-> NoEE, RR |-> <<>>]
    ELSE LET flags == data[1]
             d1 == Drop(data, 1)
             HR == IF HRFormatBit(flags) THEN as_uint(Slice(d1, 0, 2))
                   ELSE as_uint(Slice(d1, 0, 1))
             d2 == IF HRFormatBit(flags) THEN Drop(d1, 2) ELSE Drop(d1, 1)
             EE == IF EnergyBit(flags) THEN as_uint(Slice(d2, 0, 2)) ELSE NoEE
             d3 == IF EnergyBit(flags) THEN Drop(d2, 2) ELSE d2
             rr == DecodeRR(d3)
         IN  [raised |-> rr.raised, HR |-> HR, EE |-> EE, RR |-> rr.RR]

\* HR_measurement.__repr__ (lines 65-70): the segments of the printed line
Repr(m) ==
    [bpm |-> m.HR,
     joules |-> IF m.EE # NoEE /\ m.EE # 0 THEN m.EE ELSE NoEE,
     rr |-> m.RR]

(***************************************************************************)
(* notification_handler (lines 138-147) on one PropertiesChanged signal    *)
(* [iface, hasValue, data]: the exception that leaves the handler ("" for  *)
(* none) and the lines it printed.                                         *)
(***************************************************************************)
GattIface == "org.bluez.GattCharacteristic1"

Signal(i, h, d) == [iface |-> i, hasValue |-> h, data |-> d]

\* line 141 calls warn, a name the module never binds (line 6 imports warning)
WarnUnexpected(iface) == IF iface # GattIface THEN "NameError" ELSE ""

\* a handler that prints every measurement twice
notification_handler_twice(sig) ==
    IF sig.iface # GattIface THEN [raised |-> "NameError", out |-> <<>>]
    ELSE IF ~sig.hasValue THEN [raised |-> "", out |-> <<>>]
    ELSE IF HR_measurement(sig.data).raised # ""
    THEN [raised |-> HR_measurement(sig.data).raised, out |-> <<>>]
    ELSE [raised |-> "",
          out |-> <<Repr(HR_measurement(sig.data)),
                    Repr(HR_measurement(sig.data))>>]

notification_handler(sig) ==
    IF WarnUnexpected(sig.iface) # ""
    THEN [raised |-> WarnUnexpected(sig.iface), out |-> <<>>]
    ELSE IF ~sig.hasValue
    THEN [raised |-> "", out |-> <<>>]
    ELSE LET hrm == HR_measurement(sig.data)
         IN  IF hrm.raised # "" THEN [raised |-> hrm.raised, out |-> <<>>]
             ELSE [raised |-> "", out |-> <<Repr(hrm)>>]

\* the frames the heart rate characteristic sends in the session model
SessionFrames ==
    { <<>>, <<0, 64>>, <<1, 64>>, <<0, 60, 0, 0>>, <<0, 60, 0, 4>> }

Signals ==
    { Signal(GattIface, TRUE, f) : f \in SessionFrames }
    \cup { Signal(GattIface, FALSE, <<>>),
           Signal("org.bluez.Device1", TRUE, <<0, 64>>) }

(***************************************************************************)
(* State of one run of HeartRateLoop().start().                            *)
(***************************************************************************)
VARIABLES
    pc,               \* where start is: get_device, discovery, connect_device,
                      \* wait_services, open_session, running, done, failed
    error,            \* the exception start ended with ("" for none)
    retry0,           \* retry argument of the outermost get_device call
    retry,            \* retry argument of the current get_device call
    connRetry0,       \* retry argument of connect_device
    connRetry,        \* local retry of connect_device
    objs,             \* BlueZ: what GetManagedObjects returns
    Discovering,      \* BlueZ: the adapter is scanning
    Connected,        \* BlueZ: Connected property of the device
    ServicesResolved, \* BlueZ: ServicesResolved property of the device
    device,           \* self.device, as the path of the proxy
    device_path,      \* self.device_path
    hrm_path,         \* hrm_path of start
    subscribed,       \* notification_handler is connected to PropertiesChanged
    calls,            \* the D-Bus and main loop calls made so far, in order
    polls,            \* sleeps of the ServicesResolved wait
    received,         \* the signals delivered to notification_handler
    results,          \* what notification_handler did with each of them
    frame,            \* decoder on its own: the data given to HR_measurement
    hrm,              \* decoder on its own: the HR_measurement object
    line              \* decoder on its own: what print( hrm ) wrote

vars == <<pc, error, retry0, retry, connRetry0, connRetry, objs, Discovering,
          Connected, ServicesResolved, device, device_path, hrm_path,
          subscribed, calls, polls, received, results, frame, hrm, line>>

\* the variables of the decoder run on its own
decoderVars == <<frame, hrm, line>>

\* the values of hrm and line before HR_measurement and print have run
NoMeasurement == [raised |-> "", HR |-> 0, EE |-> NoEE, RR |-> <<>>]
NoLine == [bpm |-> 0, joules |-> NoEE, rr |-> <<>>]

Call(op, path, ok) == [op |-> op, path |-> path, ok |-> ok]

Count(log, op) == Cardinality({ i \in 1..Len(log) : log[i].op = op })

\* what start does with an exception nobody catches
Fail(e) == pc' = "failed" /\ error' = e

\* the state when get_device is entered with a retry of R and connect_device
\* will be entered with a retry of C
InitWith(R, C) ==
    /\ pc = "get_device"
    /\ error = ""
    /\ retry0 \in R
    /\ retry = retry0
    /\ connRetry0 \in C
    /\ connRetry = connRetry0
    /\ objs \in InitObjs
    /\ Discovering = FALSE
    /\ Connected \in BOOLEAN
    /\ ServicesResolved = FALSE
    /\ device = NoPath
    /\ device_path = NoPath
    /\ hrm_path = NoPath
    /\ subscribed = FALSE
    /\ calls = <<>>
    /\ polls = 0
    /\ received = <<>>
    /\ results = <<>>
    /\ frame = <<>>
    /\ hrm = NoMeasurement
    /\ line = NoLine

\* start as written
Init == InitWith({StartRetry}, {StartConnRetry})

\* get_device and connect_device called with any retry arguments
InitAcquire == InitWith(-1..MaxRetry, 0..MaxConnRetry)

(***************************************************************************)
(* get_device (lines 80-104).  The recursive call of line 104 is the next  *)
(* step at pc = "get_device" with the new retry; every return of a nested  *)
(* call is returned unchanged by its callers.                              *)
(***************************************************************************)
\* line 91: the lookup's KeyError / AttributeError ends get_device
LookupFailureIsFinal(r) == r = 0

\* a decrement without the floor of -1
NextRetry_unclamped(r) == r - 1

\* line 104: the retry argument of the recursive call
NextRetry(r) == Max(-1, r - 1)

\* lines 85-87 and 94-97: the lookup finds a path and bus.get returns its proxy
GetDeviceFound ==
    /\ UNCHANGED decoderVars
    /\ pc = "get_device"
    /\ get_device_path(objs, HRM_service_uuid) # NoPath
    /\ LET path == get_device_path(objs, HRM_service_uuid)
       IN  /\ calls' = calls \o <<Call("GetManagedObjects", NoPath, TRUE),
                                  Call("bus.get", path, TRUE)>>
           /\ device_path' = path
           /\ device' = path
    /\ pc' = "connect_device"
    /\ UNCHANGED <<error, retry0, retry, connRetry0, connRetry, objs,
                   Discovering, Connected, ServicesResolved, hrm_path,
                   subscribed, polls, received, results>>

\* lines 85-94: the lookup finds a path but bus.get raises KeyError (the object
\* is gone); with retry # 0 line 94 reads dev, which was never bound
GetDeviceLookupRaises ==
    /\ UNCHANGED decoderVars
    /\ pc = "get_device"
    /\ get_device_path(objs, HRM_service_uuid) # NoPath
    /\ calls' = calls \o <<Call("GetManagedObjects", NoPath, TRUE),
                           Call("bus.get", get_device_path(objs, HRM_service_uuid),
                                FALSE)>>
    /\ IF LookupFailureIsFinal(retry) THEN Fail("DeviceNotFound")
       ELSE Fail("UnboundLocalError")
    /\ UNCHANGED <<retry0, retry, connRetry0, connRetry, objs, Discovering,
                   Connected, ServicesResolved, device, device_path, hrm_path,
                   subscribed, polls, received, results>>

\* lines 85-89 and 98-101: no path, dev = None, StartDiscovery and sleep; an
\* exception of StartDiscovery is caught by nobody
GetDeviceStartDiscovery ==
    /\ UNCHANGED decoderVars
    /\ pc = "get_device"
    /\ get_device_path(objs, HRM_service_uuid) = NoPath
    /\ Count(calls, "StartDiscovery") < MaxScans
    /\ \E ok \in BOOLEAN :
         /\ calls' = calls \o <<Call("GetManagedObjects", NoPath, TRUE),
                                Call("StartDiscovery", NoPath, ok)>>
         /\ Discovering' = ok
         /\ IF ok THEN pc' = "discovery" /\ error' = error
            ELSE Fail("GLib.Error")
    /\ UNCHANGED <<retry0, retry, connRetry0, connRetry, objs, Connected,
                   ServicesResolved, device, device_path, hrm_path, subscribed,
                   polls, received, results>>

\* the sleep is over and the recursive call is made without StopDiscovery
GetDeviceStopDiscovery_omitted ==
    /\ UNCHANGED decoderVars
    /\ pc = "discovery"
    /\ retry' = NextRetry(retry)
    /\ pc' = "get_device"
    /\ UNCHANGED <<error, retry0, connRetry0, connRetry, objs, Discovering,
                   Connected, ServicesResolved, device, device_path, hrm_path,
                   subscribed, calls, polls, received, results>>

\* lines 102-104: the sleep is over, StopDiscovery and the recursive call; an
\* exception of StopDiscovery is caught by nobody
GetDeviceStopDiscovery ==
    /\ UNCHANGED decoderVars
    /\ pc = "discovery"
    /\ \E ok \in BOOLEAN :
         /\ calls' = Append(calls, Call("StopDiscovery", NoPath, ok))
         /\ Discovering' = ~ok
         /\ IF ok THEN /\ retry' = NextRetry(retry)
                       /\ pc' = "get_device"
                       /\ error' = error
            ELSE /\ retry' = retry
                 /\ Fail("GLib.Error")
    /\ UNCHANGED <<retry0, connRetry0, connRetry, objs, Connected,
                   ServicesResolved, device, device_path, hrm_path, subscribed,
                   polls, received, results>>

(***************************************************************************)
(* connect_device (lines 106-119).                                         *)
(***************************************************************************)
\* an off-by-one retry test
ConnectRetryRemains_ge(r) == r >= 0

\* line 114, on the retry already decremented by line 109
ConnectRetryRemains(r) == r > 0

\* line 107: the loop ends when the device is connected
ConnectDeviceDone ==
    /\ UNCHANGED decoderVars
    /\ pc = "connect_device"
    /\ Connected
    /\ pc' = "wait_services"
    /\ UNCHANGED <<error, retry0, retry, connRetry0, connRetry, objs,
                   Discovering, Connected, ServicesResolved, device,
                   device_path, hrm_path, subscribed, calls, polls, received,
                   results>>

\* lines 107-111: one iteration whose Connect returns and whose read of
\* self.device.Name for the debug message returns
ConnectReturns ==
    /\ UNCHANGED decoderVars
    /\ pc = "connect_device"
    /\ ~Connected
    /\ Count(calls, "Connect") < MaxConnects
    /\ connRetry' = connRetry - 1
    /\ calls' = Append(calls, Call("Connect", device, TRUE))
    /\ Connected' = TRUE
    /\ UNCHANGED <<pc, error, retry0, retry, connRetry0, objs, Discovering,
                   ServicesResolved, device, device_path, hrm_path, subscribed,
                   polls, received, results>>

\* line 119: the message of DeviceConnexionError reads self.device.Name; when
\* the read raises, its exception replaces DeviceConnexionError
LastAttemptErrors == {"DeviceConnexionError", "GLib.Error"}

\* lines 107-119: one iteration whose try block raises, at Connect (line 110,
\* connectOk FALSE) or, after a Connect that returned, at the read of
\* self.device.Name (line 111, connectOk TRUE); the except clause is the same.
\* A Disconnect that returns after a Connect that returned takes the link
\* down, at once or after line 107 has read Connected again.
TryRaises(connectOk) ==
    /\ UNCHANGED decoderVars
    /\ pc = "connect_device"
    /\ ~Connected
    /\ Count(calls, "Connect") < MaxConnects
    /\ connRetry' = connRetry - 1
    /\ IF ConnectRetryRemains(connRetry - 1)
       THEN \E ok \in BOOLEAN :
              /\ calls' = calls \o <<Call("Connect", device, connectOk),
                                     Call("Disconnect", device, ok)>>
              /\ IF ok
                 THEN /\ UNCHANGED <<pc, error>>
                      /\ Connected' \in {connectOk, FALSE}
                 ELSE /\ Fail("GLib.Error")
                      /\ Connected' = connectOk
       ELSE /\ calls' = Append(calls, Call("Connect", device, connectOk))
            /\ Connected' = connectOk
            /\ \E e \in LastAttemptErrors : Fail(e)
    /\ UNCHANGED <<retry0, retry, connRetry0, objs, Discovering,
                   ServicesResolved, device, device_path, hrm_path, subscribed,
                   polls, received, results>>

\* one iteration whose Connect raises
ConnectRaises == TryRaises(FALSE)

\* one iteration whose Connect returns and whose read of Name raises
ConnectedNameRaises == TryRaises(TRUE)

(***************************************************************************)
(* The ServicesResolved wait of start (lines 156-157).                     *)
(***************************************************************************)
\* a loop condition that does not look at Connected
KeepWaiting_unresolved(resolved, connected) == ~resolved

\* line 156: the loop condition
KeepWaiting(resolved, connected) == ~resolved /\ connected

WaitSleep ==
    /\ UNCHANGED decoderVars
    /\ pc = "wait_services"
    /\ KeepWaiting(ServicesResolved, Connected)
    /\ polls < MaxPolls
    /\ polls' = polls + 1
    /\ UNCHANGED <<pc, error, retry0, retry, connRetry0, connRetry, objs,
                   Discovering, Connected, ServicesResolved, device,
                   device_path, hrm_path, subscribed, calls, received, results>>

\* the loop ends and start goes on to line 159, whatever ended the loop
WaitExit ==
    /\ UNCHANGED decoderVars
    /\ pc = "wait_services"
    /\ ~KeepWaiting(ServicesResolved, Connected)
    /\ pc' = "open_session"
    /\ UNCHANGED <<error, retry0, retry, connRetry0, connRetry, objs,
                   Discovering, Connected, ServicesResolved, device,
                   device_path, hrm_path, subscribed, calls, polls, received,
                   results>>

(***************************************************************************)
(* start, lines 159-165: characteristic lookup, proxy, StartNotify, the    *)
(* handler's subscription and loop.run().                                  *)
(***************************************************************************)
\* line 162 with hrm_path = None: pydbus takes the default object path of the
\* bus name; the call raises KeyError, or returns a proxy that has no
\* StartNotify and line 163 raises AttributeError
NullPathErrors == {"KeyError", "AttributeError"}

OpenSessionNoCharacteristic ==
    /\ UNCHANGED decoderVars
    /\ pc = "open_session"
    /\ get_characteristic_path(objs, device_path, HRM_characteristic_uuid) = NoPath
    /\ hrm_path' = NoPath
    /\ \E e \in NullPathErrors :
         /\ calls' = calls \o <<Call("GetManagedObjects", NoPath, TRUE),
                                Call("bus.get", NoPath, e # "KeyError")>>
         /\ Fail(e)
    /\ UNCHANGED <<retry0, retry, connRetry0, connRetry, objs, Discovering,
                   Connected, ServicesResolved, device, device_path,
                   subscribed, polls, received, results>>

\* lines 159-163 with a path, ending in an exception of bus.get or StartNotify
OpenSessionRaises ==
    /\ UNCHANGED decoderVars
    /\ pc = "open_session"
    /\ get_characteristic_path(objs, device_path, HRM_characteristic_uuid) # NoPath
    /\ LET p == get_characteristic_path(objs, device_path, HRM_characteristic_uuid)
       IN  /\ hrm_path' = p
           /\ \/ /\ calls' = calls \o <<Call("GetManagedObjects", NoPath, TRUE),
                                        Call("bus.get", p, FALSE)>>
                 /\ Fail("KeyError")
              \/ /\ calls' = calls \o <<Call("GetManagedObjects", NoPath, TRUE),
                                        Call("bus.get", p, TRUE),
                                        Call("StartNotify", p, FALSE)>>
                 /\ Fail("GLib.Error")
    /\ UNCHANGED <<retry0, retry, connRetry0, connRetry, objs, Discovering,
                   Connected, ServicesResolved, device, device_path,
                   subscribed, polls, received, results>>

\* lines 159-167: StartNotify returns, the handler is connected, the loop runs
OpenSession ==
    /\ UNCHANGED decoderVars
    /\ pc = "open_session"
    /\ get_characteristic_path(objs, device_path, HRM_characteristic_uuid) # NoPath
    /\ LET p == get_characteristic_path(objs, device_path, HRM_characteristic_uuid)
       IN  /\ hrm_path' = p
           /\ calls' = calls \o <<Call("GetManagedObjects", NoPath, TRUE),
                                  Call("bus.get", p, TRUE),
                                  Call("StartNotify", p, TRUE),
                                  Call("PropertiesChanged.connect", p, TRUE),
                                  Call("loop.run", NoPath, TRUE)>>
    /\ subscribed' = TRUE
    /\ pc' = "running"
    /\ UNCHANGED <<error, retry0, retry, connRetry0, connRetry, objs,
                   Discovering, Connected, ServicesResolved, device,
                   device_path, polls, received, results>>

(***************************************************************************)
(* The main loop (lines 164-171).                                          *)
(***************************************************************************)
\* the main loop dispatches one PropertiesChanged signal to the handler; an
\* exception that leaves the handler is reported by the loop, which goes on
Notification ==
    /\ UNCHANGED decoderVars
    /\ pc = "running"
    /\ subscribed
    /\ Len(received) < MaxNotif
    /\ \E sig \in Signals :
         /\ received' = Append(received, sig)
         /\ results' = Append(results, notification_handler(sig))
    /\ UNCHANGED <<pc, error, retry0, retry, connRetry0, connRetry, objs,
                   Discovering, Connected, ServicesResolved, device,
                   device_path, hrm_path, subscribed, calls, polls>>

\* lines 168-171: the calls of the except clause, given whether StopNotify and
\* Disconnect return; an exception of StopNotify leaves the clause at line 170
TeardownCalls(stopOk, discOk) ==
    IF stopOk
    THEN <<Call("loop.quit", NoPath, TRUE), Call("StopNotify", hrm_path, TRUE),
           Call("Disconnect", device, discOk)>>
    ELSE <<Call("loop.quit", NoPath, TRUE), Call("StopNotify", hrm_path, FALSE)>>

\* KeyboardInterrupt in loop.run(); leaving the with block, normally or by an
\* exception, disconnects the handler
KeyboardInterrupt ==
    /\ UNCHANGED decoderVars
    /\ pc = "running"
    /\ \E stopOk \in BOOLEAN, discOk \in BOOLEAN :
         /\ calls' = calls \o TeardownCalls(stopOk, discOk)
         /\ IF Len(TeardownCalls(stopOk, discOk)) = 3 /\ discOk
            THEN /\ Connected' = FALSE
                 /\ ServicesResolved' = FALSE
            ELSE UNCHANGED <<Connected, ServicesResolved>>
         /\ IF \A i \in 1..Len(TeardownCalls(stopOk, discOk)) :
                   TeardownCalls(stopOk, discOk)[i].ok
            THEN pc' = "done" /\ error' = ""
            ELSE Fail("GLib.Error")
    /\ subscribed' = FALSE
    /\ UNCHANGED <<retry0, retry, connRetry0, connRetry, objs, Discovering,
                   device, device_path, hrm_path, polls, received, results>>

(***************************************************************************)
(* BlueZ and the peripheral.                                               *)
(***************************************************************************)
\* a scan finds a device and BlueZ exports it
DeviceDiscovered ==
    /\ UNCHANGED decoderVars
    /\ Discovering
    /\ \E d \in Discoverable :
         /\ ~InObjs(objs, d)
         /\ objs' = Append(objs, d)
    /\ UNCHANGED <<pc, error, retry0, retry, connRetry0, connRetry,
                   Discovering, Connected, ServicesResolved, device,
                   device_path, hrm_path, subscribed, calls, polls, received,
                   results>>

Acquired == pc \in {"connect_device", "wait_services", "open_session", "running"}

\* the link to the device is lost
DeviceDrops ==
    /\ UNCHANGED decoderVars
    /\ Acquired
    /\ Connected
    /\ Connected' = FALSE
    /\ ServicesResolved' = FALSE
    /\ UNCHANGED <<pc, error, retry0, retry, connRetry0, connRetry, objs,
                   Discovering, device, device_path, hrm_path, subscribed,
                   calls, polls, received, results>>

\* BlueZ finishes GATT discovery on the connected device and exports its
\* characteristics
ServicesResolve ==
    /\ UNCHANGED decoderVars
    /\ Acquired
    /\ Connected
    /\ ~ServicesResolved
    /\ ServicesResolved' = TRUE
    /\ \E t \in GattTables(device) :
         objs' = objs \o SelectSeq(t, LAMBDA o : ~InObjs(objs, o))
    /\ UNCHANGED <<pc, error, retry0, retry, connRetry0, connRetry,
                   Discovering, Connected, device, device_path, hrm_path,
                   subscribed, calls, polls, received, results>>

Next ==
    \/ GetDeviceFound
    \/ GetDeviceLookupRaises
    \/ GetDeviceStartDiscovery
    \/ GetDeviceStopDiscovery
    \/ ConnectDeviceDone
    \/ ConnectReturns
    \/ ConnectRaises
    \/ ConnectedNameRaises
    \/ WaitSleep
    \/ WaitExit
    \/ OpenSessionNoCharacteristic
    \/ OpenSessionRaises
    \/ OpenSession
    \/ Notification
    \/ KeyboardInterrupt
    \/ DeviceDiscovered
    \/ DeviceDrops
    \/ ServicesResolve

Spec == Init /\ [][Next]_vars

\* get_device followed by connect_device, up to the return of connect_device
NextAcquire ==
    \/ GetDeviceFound
    \/ GetDeviceLookupRaises
    \/ GetDeviceStartDiscovery
    \/ GetDeviceStopDiscovery
    \/ ConnectDeviceDone
    \/ ConnectReturns
    \/ ConnectRaises
    \/ ConnectedNameRaises
    \/ DeviceDiscovered
    \/ DeviceDrops

SpecAcquire == InitAcquire /\ [][NextAcquire]_vars

(***************************************************************************)
(* The decoder on its own: lines 144-145 of notification_handler applied   *)
(* to one Value, hrm = HR_measurement(data) and then print( hrm ).         *)
(***************************************************************************)
\* flags bytes: every combination of bit 0 and bit 3, without and with the
\* other bits
FlagBytes == {0, 1, 8, 9, 4, 21, 14, 27}
DataBytes == {0, 1, 4, 64}

\* the empty Value and every flags byte followed by up to MaxData bytes
DecodeFrames ==
    { <<>> } \cup
    { <<f>> \o d : f \in FlagBytes,
                   d \in UNION { [1..n -> DataBytes] : n \in 0..MaxData } }

InitDecode ==
    /\ pc = "decode"
    /\ frame \in DecodeFrames
    /\ hrm = NoMeasurement
    /\ line = NoLine
    /\ error = ""
    /\ retry0 = StartRetry
    /\ retry = StartRetry
    /\ connRetry0 = StartConnRetry
    /\ connRetry = StartConnRetry
    /\ objs = <<Adapter>>
    /\ Discovering = FALSE
    /\ Connected = FALSE
    /\ ServicesResolved = FALSE
    /\ device = NoPath
    /\ device_path = NoPath
    /\ hrm_path = NoPath
    /\ subscribed = FALSE
    /\ calls = <<>>
    /\ polls = 0
    /\ received = <<>>
    /\ results = <<>>

sessionVars == <<error, retry0, retry, connRetry0, connRetry, objs, Discovering,
                 Connected, ServicesResolved, device, device_path, hrm_path,
                 subscribed, calls, polls, received, results>>

\* line 144: the constructor returns the object or raises
Construct ==
    /\ pc = "decode"
    /\ hrm' = HR_measurement(frame)
    /\ pc' = IF HR_measurement(frame).raised = "" THEN "decoded"
             ELSE "decode_failed"
    /\ UNCHANGED <<frame, line>>
    /\ UNCHANGED sessionVars

\* line 145: print( hrm ), which writes hrm.__repr__()
WriteLine ==
    /\ pc = "decoded"
    /\ line' = Repr(hrm)
    /\ pc' = "printed"
    /\ UNCHANGED <<frame, hrm>>
    /\ UNCHANGED sessionVars

NextDecode ==
    \/ Construct
    \/ WriteLine

SpecDecode == InitDecode /\ [][NextDecode]_vars

TypeOK ==
    /\ pc \in {"get_device", "discovery", "connect_device", "wait_services",
               "open_session", "running", "done", "failed", "decode",
               "decoded", "decode_failed", "printed"}
    /\ retry \in -1..Max(MaxRetry, StartRetry)
    /\ Len(results) = Len(received)

(***************************************************************************)
(* Properties of get_device.                                               *)
(***************************************************************************)
Scans == Count(calls, "StartDiscovery")

\* the first lookup of get_device found a path and asked the bus for its proxy
FirstLookupFoundPath == Len(calls) >= 2 /\ calls[2].op = "bus.get"

\* the first lookup of get_device returned a device
FirstLookupReturned == FirstLookupFoundPath /\ calls[2].ok

\* the object advertises the heart rate service
Advertises(o) == HRM_service_uuid \in o.UUIDs

\* C1: with a retry budget n >= 0, get_device performs at most n discovery
\* scans: it does not start another scan once the budget is exhausted.
C1_ScansWithinBudget == retry0 >= 0 => Scans <= retry0

\* C2: get_device called with retry = 0 whose lookup finds no device ends with
\* DeviceNotFound and never calls StartDiscovery.
C2_ZeroRetryFailsWithoutScan ==
    (retry0 = 0 /\ Len(calls) > 0 /\ ~FirstLookupFoundPath) =>
        /\ pc = "failed"
        /\ error = "DeviceNotFound"
        /\ Scans = 0

\* C3: when the first lookup returns a device, get_device has returned: the
\* device is the first object in lookup order that advertises the heart rate
\* service, its path is recorded in device_path, and neither StartDiscovery nor
\* StopDiscovery was called, whatever the retry argument.
C3_FirstLookupReturnsFirstMatch ==
    FirstLookupReturned =>
        /\ pc \notin {"get_device", "discovery"}
        /\ device = calls[2].path
        /\ device_path = device
        /\ \E i \in 1..Len(objs) :
             /\ objs[i].path = device
             /\ Advertises(objs[i])
             /\ \A j \in 1..(i - 1) : ~Advertises(objs[j])
        /\ Count(calls, "StartDiscovery") = 0
        /\ Count(calls, "StopDiscovery") = 0

\* a first lookup that had two matching devices to choose from returned the
\* first, with a retry of 0
C3_Witness ==
    /\ FirstLookupReturned
    /\ retry0 = 0
    /\ pc = "connect_device"
    /\ device = DevB.path
    /\ InObjs(objs, DevA)

(***************************************************************************)
(* Properties of connect_device.                                           *)
(***************************************************************************)
Connects == Count(calls, "Connect")

\* the retry left after the Connect logged at position i
RetryAfter(i) == connRetry0 - Count(SubSeq(calls, 1, i), "Connect")

FailedConnectAt(i) == calls[i].op = "Connect" /\ ~calls[i].ok

\* C4: connect_device(retry = n), n >= 1, calls Connect at most n times,
\* whatever the device does.
C4_ConnectsWithinBudget == connRetry0 >= 1 => Connects <= connRetry0

\* C5: after a Connect that raised with attempts left, the next call on the
\* device is a Disconnect and the call after that one, if any, is the next
\* Connect (one Disconnect between two attempts); a Connect that raised with
\* no attempt left is the last call, with no further Connect or Disconnect,
\* and connect_device has ended with DeviceConnexionError.
C5_DisconnectBetweenAttempts ==
    \A i \in 1..Len(calls) :
        FailedConnectAt(i) =>
            IF RetryAfter(i) > 0
            THEN /\ i < Len(calls)
                 /\ calls[i + 1].op = "Disconnect"
                 /\ i + 2 <= Len(calls) => calls[i + 2].op = "Connect"
            ELSE /\ i = Len(calls)
                 /\ pc = "failed"
                 /\ error = "DeviceConnexionError"

\* a Connect raised, was followed by Disconnect and a second Connect, which
\* raised with no attempt left
C5_Witness ==
    /\ pc = "failed"
    /\ error = "DeviceConnexionError"
    /\ Len(calls) >= 3
    /\ FailedConnectAt(Len(calls) - 2)
    /\ calls[Len(calls) - 1].op = "Disconnect"
    /\ FailedConnectAt(Len(calls))

(***************************************************************************)
(* Properties of start after connect_device.                               *)
(***************************************************************************)
\* no object under the acquired device is a heart rate measurement
\* characteristic
NoHrmCharacteristic ==
    ~\E i \in 1..Len(objs) :
        /\ objs[i].chr = HRM_characteristic_uuid
        /\ Len(objs[i].path) > Len(device_path)
        /\ SubSeq(objs[i].path, 1, Len(device_path)) = device_path

\* C6: when the ServicesResolved wait ends on a device that is not connected,
\* start ends with DeviceConnexionError instead of going on to the
\* characteristic lookup, StartNotify and the subscription.
C6_DisconnectDuringWaitFails ==
    [][(pc = "wait_services" /\ ~Connected /\ pc' # "wait_services")
          => (pc' = "failed" /\ error' = "DeviceConnexionError")]_vars

\* C7: when the device is connected with its services resolved and no
\* characteristic with the target UUID exists under it, start ends with
\* CharacteristicNotFound: it asks the bus for no object at a null path, calls
\* no StartNotify and connects no handler.
C7_MissingCharacteristicIsExplicit ==
    [][(/\ pc = "open_session"
        /\ Connected
        /\ ServicesResolved
        /\ NoHrmCharacteristic
        /\ pc' # "open_session")
          => /\ pc' = "failed"
             /\ error' = "CharacteristicNotFound"
             /\ ~subscribed'
             /\ \A i \in 1..Len(calls') :
                  /\ calls'[i].op # "StartNotify"
                  /\ ~(calls'[i].op = "bus.get" /\ calls'[i].path = NoPath)]_vars

(***************************************************************************)
(* Properties of the teardown.                                             *)
(***************************************************************************)
Cancelled == Count(calls, "loop.quit") > 0

\* the calls made after loop.quit()
AfterQuit ==
    LET q == CHOOSE i \in 1..Len(calls) : calls[i].op = "loop.quit"
    IN  SubSeq(calls, q + 1, Len(calls))

\* C8: once a running session was cancelled, the calls after loop.quit() are
\* one StopNotify followed by one Disconnect, whatever number of
\* notifications was delivered before.
C8_UnsubscribeThenDisconnectOnce ==
    Cancelled =>
        /\ Len(AfterQuit) = 2
        /\ AfterQuit[1].op = "StopNotify"
        /\ AfterQuit[2].op = "Disconnect"

\* C9: a failure of StopNotify or of Disconnect during the teardown is not
\* propagated: start has returned without an error, and Disconnect was
\* attempted even when StopNotify failed.
C9_TeardownIsBestEffort ==
    Cancelled =>
        /\ pc = "done"
        /\ error = ""
        /\ Count(AfterQuit, "Disconnect") > 0

(***************************************************************************)
(* Properties of notification_handler.                                     *)
(***************************************************************************)
\* the bytes the flags byte declares before the RR field
DeclaredLength(data) ==
    1 + (IF HRFormatBit(data[1]) THEN 2 ELSE 1)
      + (IF EnergyBit(data[1]) THEN 2 ELSE 0)

\* the frame is empty, shorter than its flags declare, has an odd number of
\* RR bytes, or has an RR chunk of value zero
Malformed(data) ==
    \/ Len(data) = 0
    \/ Len(data) < DeclaredLength(data)
    \/ (Len(data) - DeclaredLength(data)) % 2 = 1
    \/ \E k \in 0..((Len(data) - DeclaredLength(data)) \div 2 - 1) :
          /\ data[DeclaredLength(data) + 2 * k + 1] = 0
          /\ data[DeclaredLength(data) + 2 * k + 2] = 0

IsFrame(sig) == sig.iface = GattIface /\ sig.hasValue

\* C10: a malformed frame is discarded inside the handler: no exception leaves
\* the handler and nothing is printed for it; every well-formed frame, also
\* one that follows a malformed frame, is printed.
C10_MalformedFrameDiscarded ==
    \A i \in 1..Len(received) :
        IsFrame(received[i]) =>
            /\ results[i].raised = ""
            /\ Malformed(received[i].data) <=> results[i].out = <<>>

(***************************************************************************)
(* Properties of the delivery of measurements.                             *)
(***************************************************************************)
\* a signal of the characteristic whose Value is a well-formed frame
ValidNotification(sig) == IsFrame(sig) /\ ~Malformed(sig.data)

\* the heart rate a well-formed frame carries, read off its bytes
FrameHeartRate(data) ==
    IF data[1] % 2 = 1 THEN data[2] + 256 * data[3] ELSE data[2]

\* the number of RR chunks a well-formed frame carries
FrameChunks(data) == (Len(data) - DeclaredLength(data)) \div 2

\* what reached standard output: the lines of each dispatch, in dispatch order
RECURSIVE SinkOf(_)
SinkOf(res) ==
    IF res = <<>> THEN <<>> ELSE res[1].out \o SinkOf(Tail(res))

\* the heart rates of the valid notifications, in the order received
RECURSIVE ValidHeartRates(_)
ValidHeartRates(sigs) ==
    IF sigs = <<>> THEN <<>>
    ELSE (IF ValidNotification(sigs[1]) THEN <<FrameHeartRate(sigs[1].data)>>
          ELSE <<>>) \o ValidHeartRates(Tail(sigs))

\* the lines of the sink that came from valid notifications, as heart rates
RECURSIVE ValidSink(_, _)
ValidSink(sigs, res) ==
    IF sigs = <<>> THEN <<>>
    ELSE (IF ValidNotification(sigs[1])
          THEN [k \in 1..Len(res[1].out) |-> res[1].out[k].bpm]
          ELSE <<>>) \o ValidSink(Tail(sigs), Tail(res))

DeliveredInOrder ==
    /\ ValidSink(received, results) = ValidHeartRates(received)
    /\ \A i \in 1..Len(received) :
         /\ Len(results[i].out) <= 1
         /\ ValidNotification(received[i]) =>
              /\ results[i].raised = ""
              /\ Len(results[i].out) = 1
              /\ Len(results[i].out[1].rr) = FrameChunks(received[i].data)
    /\ Len(SinkOf(results)) <= Len(received)
    /\ pc \in {"done", "failed"} => ~subscribed

\* C11: every valid notification puts exactly one measurement on the sink, the
\* measurements of the valid notifications are on the sink in the order the
\* notifications were received, no dispatch writes more than one line, and
\* once the teardown is over the handler is disconnected and nothing more is
\* delivered.
C11_OneMeasurementPerNotificationInOrder ==
    /\ []DeliveredInOrder
    /\ [][(pc \in {"done", "failed"})
            => (received' = received /\ results' = results)]_vars

\* two valid notifications were delivered, 64 bpm then 60 bpm with one RR
\* interval, and the session was cancelled
C11_Witness ==
    /\ pc = "done"
    /\ Len(received) = 2
    /\ received[1] = Signal(GattIface, TRUE, <<0, 64>>)
    /\ received[2] = Signal(GattIface, TRUE, <<0, 60, 0, 4>>)
    /\ Len(SinkOf(results)) = 2
    /\ SinkOf(results)[1].bpm = 64
    /\ SinkOf(results)[2].bpm = 60

(***************************************************************************)
(* Properties of the decoder.                                              *)
(***************************************************************************)
Decoded == pc \in {"decoded", "printed"}

\* the frame has all the bytes its flags declare before the RR field
FieldsComplete(data) == Len(data) >= 1 /\ Len(data) >= DeclaredLength(data)

\* the flags byte with every bit but 0 and 3 cleared
Bits0And3(flags) == (flags % 2) + 8 * ((flags \div 8) % 2)

\* the energy value a frame with complete fields carries, read off its bytes
FrameEnergy(data) ==
    IF (data[1] \div 8) % 2 = 0 THEN NoEE
    ELSE data[DeclaredLength(data) - 1] + 256 * data[DeclaredLength(data)]

\* the value of the k-th 2-byte RR chunk of a frame, read off its bytes
FrameChunk(data, k) ==
    data[DeclaredLength(data) + 2 * k - 1]
        + 256 * data[DeclaredLength(data) + 2 * k]

\* a quotient in lowest terms, to compare quotients
RECURSIVE GCD(_, _)
GCD(a, b) == IF b = 0 THEN a ELSE GCD(b, a % b)

Reduced(n, d) == [num |-> n \div GCD(n, d), den |-> d \div GCD(n, d)]

\* C12: for a decoded frame whose heart rate and energy fields are complete,
\* HR is the byte after the flags when bit 0 is clear and the little-endian
\* value of the next two bytes when it is set, EE is the little-endian value of
\* the two bytes after the heart rate when bit 3 is set and None otherwise, and
\* the object is the one the same frame gives with every other flag bit
\* cleared.
C12_HeartRateAndEnergyByFlags ==
    (Decoded /\ FieldsComplete(frame)) =>
        /\ hrm.HR = FrameHeartRate(frame)
        /\ hrm.EE = FrameEnergy(frame)
        /\ hrm = HR_measurement(<<Bits0And3(frame[1])>> \o Tail(frame))

\* a frame with flag bits 0, 1, 3 and 4 set, a 16-bit heart rate of 320 and an
\* energy of 4 was decoded
C12_Witness ==
    /\ pc = "decoded"
    /\ frame = <<27, 64, 1, 4, 0>>
    /\ hrm.HR = 320
    /\ hrm.EE = 4

\* the frame has its flags byte but fewer bytes than the flags declare, or an
\* odd number of RR bytes
TruncatedFrame(data) ==
    /\ Len(data) >= 1
    /\ \/ Len(data) < DeclaredLength(data)
       \/ (Len(data) - DeclaredLength(data)) % 2 = 1

\* C13: decoding a truncated frame fails; no measurement is built from it.
C13_TruncatedFrameFails ==
    (pc # "decode" /\ TruncatedFrame(frame)) => pc = "decode_failed"

\* C14: every 2-byte RR chunk of value v of a decoded frame gives the entry
\* 60000 * 1024 / v, at the chunk's position.
C14_RRIntervalInMilliseconds ==
    (Decoded /\ FieldsComplete(frame)) =>
        \A k \in 1..FrameChunks(frame) :
            /\ k <= Len(hrm.RR)
            /\ Reduced(hrm.RR[k].num, hrm.RR[k].den)
                   = Reduced(60000 * 1024, FrameChunk(frame, k))

\* C14 as amended: every 2-byte RR chunk of value v of a decoded frame gives
\* the entry 60 * 1024 / v, at the chunk's position, and a frame with an even
\* number of RR bytes gives no other entry.
C14_RRIntervalFromChunk ==
    (Decoded /\ FieldsComplete(frame)) =>
        /\ \A k \in 1..FrameChunks(frame) :
             /\ k <= Len(hrm.RR)
             /\ Reduced(hrm.RR[k].num, hrm.RR[k].den)
                    = Reduced(60 * 1024, FrameChunk(frame, k))
        /\ (Len(frame) - DeclaredLength(frame)) % 2 = 0
              => Len(hrm.RR) = FrameChunks(frame)

\* a frame with the chunks 1024 and 4, in this order, was decoded to the
\* entries 60 and 15360
C14_Witness ==
    /\ pc = "decoded"
    /\ frame = <<0, 64, 0, 4, 4, 0>>
    /\ Len(hrm.RR) = 2
    /\ hrm.RR[1].num = 60 * hrm.RR[1].den
    /\ hrm.RR[2].num = 15360 * hrm.RR[2].den

\* C15: the printed line of a frame with complete fields has the energy
\* segment exactly when flag bit 3 is set, whatever the energy value.
C15_EnergySegmentIffFlag ==
    (pc = "printed" /\ FieldsComplete(frame)) =>
        (line.joules # NoEE <=> (frame[1] \div 8) % 2 = 1)

(***************************************************************************)
(* Properties of the retry counter and of the scanning of get_device.      *)
(***************************************************************************)
\* the path the lookup of get_device finds in the managed objects
LookupPath == get_device_path(objs, HRM_service_uuid)

\* get_device was entered with the unlimited budget
Unlimited == retry0 = -1

\* the last call logged by the step is a bus.get that returned a proxy
ProxyObtained ==
    /\ Len(calls') > Len(calls)
    /\ calls'[Len(calls')].op = "bus.get"
    /\ calls'[Len(calls')].ok

RetryInRange ==
    /\ retry \in Int
    /\ retry >= -1
    /\ Unlimited => (retry = -1 /\ error # "DeviceNotFound")

\* one lookup of get_device entered with the unlimited budget: without a match
\* it goes on to a scan and does not return, and a lookup that obtains the
\* device returns it
UnlimitedLookupStep ==
    (Unlimited /\ pc = "get_device" /\ pc' # "get_device") =>
        /\ LookupPath = NoPath =>
              /\ calls'[Len(calls')].op = "StartDiscovery"
              /\ calls'[Len(calls')].ok => pc' = "discovery"
              /\ device' = NoPath
        /\ ProxyObtained =>
              /\ pc' = "connect_device"
              /\ device' = LookupPath
              /\ LookupPath # NoPath
        /\ pc' = "connect_device" => ProxyObtained

\* C16: the retry of every get_device call is an integer >= -1; started with
\* -1 it stays -1 and DeviceNotFound is never raised; each lookup without a
\* match is followed by a scan, each scan by a lookup, and the first lookup
\* that obtains a device returns it.
C16_UnlimitedRetryStaysUnlimited ==
    /\ []RetryInRange
    /\ [][UnlimitedLookupStep]_vars
    /\ [][(Unlimited /\ pc = "discovery" /\ pc' # "discovery")
            => (pc' = "get_device" \/ ~calls'[Len(calls')].ok)]_vars

\* get_device entered with -1 made three scans, more than any budget of
\* start, and returned the device its fourth lookup found
C16_Witness ==
    /\ Unlimited
    /\ retry = -1
    /\ Scans >= 3
    /\ pc = "connect_device"
    /\ device # NoPath
    /\ device = LookupPath

(***************************************************************************)
(* Properties of the ServicesResolved wait.                                *)
(***************************************************************************)
\* what a poll of line 156 must observe for the loop to end
PollEndsWait == ServicesResolved \/ ~Connected

\* a step that leaves the polling loop is taken on a poll that observes
\* ServicesResolved true or Connected false, and goes on to line 159
WaitLeftOnlyOnObservation ==
    (pc = "wait_services" /\ pc' # "wait_services") =>
        (PollEndsWait /\ pc' = "open_session")

\* a poll that observes ServicesResolved true or Connected false is the last
\* one: start does not sleep again
NoSleepAfterObservation ==
    (pc = "wait_services" /\ PollEndsWait) => polls' = polls

\* the characteristic lookup and StartNotify come after the loop only
NoSessionWhileWaiting ==
    pc = "wait_services" =>
        /\ hrm_path = NoPath
        /\ Count(calls, "StartNotify") = 0
        /\ ~subscribed

\* C17: the wait is left exactly on a poll that observes ServicesResolved true
\* or Connected false; while the device stays connected with its services
\* unresolved start only sleeps and polls again, with no limit of its own on
\* the number of polls, and does not reach the characteristic lookup or
\* StartNotify.
C17_WaitLeftExactlyOnResolvedOrDisconnected ==
    /\ []NoSessionWhileWaiting
    /\ [][WaitLeftOnlyOnObservation]_vars
    /\ [][NoSleepAfterObservation]_vars

\* the device is connected, its services are unresolved, and start has slept
\* and polled as many times as the exploration allows and is still waiting
C17_Witness ==
    /\ pc = "wait_services"
    /\ Connected
    /\ ~ServicesResolved
    /\ polls = MaxPolls
    /\ Count(calls, "StartNotify") = 0

(***************************************************************************)
(* Properties of the scanning.                                             *)
(***************************************************************************)
\* whether the adapter is scanning when the call at position i is made, from
\* the StartDiscovery and StopDiscovery calls that returned before it
ScanningAt(i) ==
    Cardinality({ j \in 1..(i - 1) :
                    calls[j].op = "StartDiscovery" /\ calls[j].ok })
        # Cardinality({ j \in 1..(i - 1) :
                          calls[j].op = "StopDiscovery" /\ calls[j].ok })

\* C18: a StartDiscovery that started a scan has a StopDiscovery as the very
\* next call, made before the next lookup, and every StopDiscovery is the call
\* after a StartDiscovery; the adapter is not scanning when get_device looks
\* up the managed objects, when it has returned a device, or at any Connect.
C18_ScanStoppedBeforeLookup ==
    /\ \A i \in 1..Len(calls) :
         /\ (calls[i].op = "StartDiscovery" /\ calls[i].ok) =>
               IF i = Len(calls) THEN pc = "discovery" /\ Discovering
               ELSE calls[i + 1].op = "StopDiscovery"
         /\ calls[i].op = "StopDiscovery" =>
               (i > 1 /\ calls[i - 1].op = "StartDiscovery" /\ calls[i - 1].ok)
         /\ calls[i].op \in {"GetManagedObjects", "StartDiscovery", "Connect"}
               => ~ScanningAt(i)
    /\ pc = "get_device" => ~Discovering
    /\ Acquired => ~Discovering

\* get_device made two scans, each stopped before the next lookup, returned a
\* device found by the second scan, and Connect was called on it
C18_Witness ==
    /\ Scans = 2
    /\ Count(calls, "StopDiscovery") = 2
    /\ Connects >= 1
    /\ ~Discovering
    /\ device # NoPath

(***************************************************************************)
(* Properties of the errors of get_device.                                 *)
(***************************************************************************)
\* the last call of get_device is a lookup whose bus.get raised
LookupRaised ==
    /\ device = NoPath
    /\ Len(calls) >= 1
    /\ calls[Len(calls)].op = "bus.get"
    /\ ~calls[Len(calls)].ok

\* C19: get_device ends at a lookup that raised only when retry is 0, and then
\* with DeviceNotFound; with another retry the lookup that raised is not the
\* end of get_device.
C19_LookupErrorIsNotFound ==
    (pc = "failed" /\ LookupRaised) =>
        (retry = 0 /\ error = "DeviceNotFound")

(***************************************************************************)
(* Properties of the handler on a signal of another interface.             *)
(***************************************************************************)
\* C20: the dispatch of a signal whose interface is not the characteristic's
\* raises nothing; when the signal carries a well-formed Value its
\* measurement is printed, and when it carries no Value nothing is printed.
C20_UnexpectedInterfaceOnlyWarns ==
    \A i \in 1..Len(received) :
        received[i].iface # GattIface =>
            /\ results[i].raised = ""
            /\ (received[i].hasValue /\ ~Malformed(received[i].data)) =>
                  results[i].out = <<Repr(HR_measurement(received[i].data))>>
            /\ ~received[i].hasValue => results[i].out = <<>>

====
